---- MODULE Spec2Model ----
(***************************************************************************)
(* Vote cache of toppy (toppy/webhook/cache.py): AbstractDatabase with its *)
(* two backends JSONDatabase and SQLiteDatabase, the storage root          *)
(* toppy_vote_cache with number.txt, votes.json and votes.db.              *)
(*                                                                         *)
(* Text is modelled as a sequence of tokens [k, v]; a Python str is such a *)
(* sequence.  Conversions (str/int, isoformat/fromisoformat, json.dumps/   *)
(* json.loads) build and parse token sequences.                            *)
(*                                                                         *)
(* The storage root is an input of connect(): it starts either absent, or  *)
(* holding a number.txt with the counter "0" and no votes.  No code path   *)
(* writes a number into number.txt (mkfile leaves it empty and insert      *)
(* opens it read-only), so the second kind of root is the only one on      *)
(* which connect() returns; it stands for a root prepared by hand.         *)
(***************************************************************************)
EXTENDS Integers, Sequences, FiniteSets, TLC

VARIABLES db, ret, live, hist, root, tasks

vars == <<db, ret, live, hist, root, tasks>>

(***************************************************************************)
(* Bounds                                                                  *)
(***************************************************************************)
\* state-changing calls (connect, insert, restart) issued in one run
MaxCalls == 4
\* distinct voting users, one payload each
MaxUser == 2

Backends == {"json", "sqlite"}

(***************************************************************************)
(* Text                                                                    *)
(***************************************************************************)
Tok(k, v) == [k |-> k, v |-> v]

\* a str made of the one-character tokens of a name
Str(name) == <<Tok("ch", name)>>

\* str(n) for n >= 0: the decimal digits of n
RECURSIVE str(_)
str(n) == IF n < 10 THEN <<Tok("d", n)>> ELSE str(n \div 10) \o <<Tok("d", n % 10)>>

IsDigits(text) == Len(text) > 0 /\ \A i \in 1..Len(text) : text[i].k = "d"

RECURSIVE DigitsValue(_)
DigitsValue(text) ==
    IF Len(text) = 0 THEN 0
    ELSE 10 * DigitsValue(SubSeq(text, 1, Len(text) - 1)) + text[Len(text)].v

\* int(content): ValueError on the empty string and on non-digits
int(content) ==
    IF IsDigits(content) THEN [ok |-> TRUE, v |-> DigitsValue(content)]
    ELSE [ok |-> FALSE, v |-> 0]

(***************************************************************************)
(* datetime: seconds and microseconds of the local wall clock, and the     *)
(* offset of the timezone in minutes                                       *)
(***************************************************************************)
DateTime(secs, micro, off) == [secs |-> secs, micro |-> micro, off |-> off]

\* datetime.isoformat(): the fraction appears only when microsecond /= 0
isoformat(t) ==
    <<Tok("dt", t.secs)>>
    \o (IF t.micro # 0 THEN <<Tok("us", t.micro)>> ELSE <<>>)
    \o <<Tok("tz", t.off)>>

\* datetime.fromisoformat(): date and time, optional fraction, offset
fromisoformat(text) ==
    IF Len(text) = 2 /\ text[1].k = "dt" /\ text[2].k = "tz"
    THEN [ok |-> TRUE, v |-> DateTime(text[1].v, 0, text[2].v)]
    ELSE IF Len(text) = 3 /\ text[1].k = "dt" /\ text[2].k = "us" /\ text[3].k = "tz"
    THEN [ok |-> TRUE, v |-> DateTime(text[1].v, text[2].v, text[3].v)]
    ELSE [ok |-> FALSE, v |-> DateTime(0, 0, 0)]

\* == of two aware datetimes: the same instant
Instant(t) == <<t.secs - 60 * t.off, t.micro>>
DtEq(a, b) == Instant(a) = Instant(b)

(***************************************************************************)
(* json                                                                    *)
(***************************************************************************)
LB == Tok("[", 0)
RB == Tok("]", 0)
COMMA == Tok(",", 0)

\* json.dumps of one stored tuple [number, user_id, time, site]
dumps_row(d) ==
    <<LB, Tok("int", d[1]), COMMA, Tok("int", d[2]), COMMA,
      Tok("str", d[3]), COMMA, Tok("str", d[4]), RB>>

RECURSIVE dumps_rows(_)
dumps_rows(data) ==
    IF Len(data) = 0 THEN <<>>
    ELSE IF Len(data) = 1 THEN dumps_row(data[1])
    ELSE dumps_row(data[1]) \o <<COMMA>> \o dumps_rows(Tail(data))

\* json.dumps(data) of a list of tuples
dumps_list(data) == <<LB>> \o dumps_rows(data) \o <<RB>>

\* json.dumps(text) of a str: one JSON string holding the text
dumps_str(text) == <<Tok("str", text)>>

IsRowAt(text, i) ==
    /\ i + 8 <= Len(text)
    /\ text[i].k = "[" /\ text[i + 1].k = "int" /\ text[i + 2].k = ","
    /\ text[i + 3].k = "int" /\ text[i + 4].k = "," /\ text[i + 5].k = "str"
    /\ text[i + 6].k = "," /\ text[i + 7].k = "str" /\ text[i + 8].k = "]"

RowAt(text, i) == <<text[i + 1].v, text[i + 3].v, text[i + 5].v, text[i + 7].v>>

\* the elements of an array from token i on; acc holds those already read
RECURSIVE loads_rows(_, _, _)
loads_rows(text, i, acc) ==
    IF ~IsRowAt(text, i) THEN [t |-> "err", v |-> <<>>]
    ELSE IF i + 9 = Len(text) /\ text[i + 9].k = "]"
    THEN [t |-> "list", v |-> Append(acc, RowAt(text, i))]
    ELSE IF i + 9 < Len(text) /\ text[i + 9].k = ","
    THEN loads_rows(text, i + 10, Append(acc, RowAt(text, i)))
    ELSE [t |-> "err", v |-> <<>>]

\* json.loads(text): a list of tuples, a str, or JSONDecodeError ("err")
loads(text) ==
    IF Len(text) = 0 THEN [t |-> "err", v |-> <<>>]
    ELSE IF Len(text) = 1 /\ text[1].k = "str" THEN [t |-> "str", v |-> text[1].v]
    ELSE IF text[1].k # "[" THEN [t |-> "err", v |-> <<>>]
    ELSE IF Len(text) = 2 /\ text[2].k = "]" THEN [t |-> "list", v |-> <<>>]
    ELSE loads_rows(text, 2, <<>>)

(***************************************************************************)
(* Payloads (BaseVotePayload: user_id, time, SITE) and CachedVote          *)
(***************************************************************************)
Payload(u) ==
    [user_id |-> u,
     time |-> DateTime(10 * u, IF u % 2 = 0 THEN 5 ELSE 0, 60 * (u % 3)),
     SITE |-> Str(IF u % 2 = 0 THEN "b" ELSE "a")]

Payloads == {Payload(u) : u \in 1..MaxUser}
NoPayload == [user_id |-> 0, time |-> DateTime(0, 0, 0), SITE |-> <<>>]

CachedVote(number, id, time, site) ==
    [number |-> number, id |-> id, time |-> time, site |-> site]

(***************************************************************************)
(* The storage root and one store instance                                 *)
(*   dir         toppy_vote_cache exists                                   *)
(*   number_txt  toppy_vote_cache/number.txt                               *)
(*   votes_json  toppy_vote_cache/votes.json                               *)
(*   votes_db    toppy_vote_cache/votes.db: the table votes, its committed *)
(*               rows and the rows of the open transaction                 *)
(*   number, conn   the fields of the instance                             *)
(***************************************************************************)
File(exists, content) == [exists |-> exists, content |-> content]
NoFile == File(FALSE, <<>>)
NoDb == [exists |-> FALSE, table |-> FALSE, rows |-> <<>>, pending |-> <<>>]

\* utils.MISSING, the placeholder of a connection not yet opened
MISSING == "MISSING"

\* __init__: number = 0, conn = MISSING
New(files) == [files EXCEPT !.number = 0, !.conn = MISSING]

\* a storage root that does not exist yet
FreshRoot ==
    [dir |-> FALSE, number_txt |-> NoFile, votes_json |-> NoFile, votes_db |-> NoDb,
     number |-> 0, conn |-> MISSING]

\* a storage root whose number.txt was written by hand with the counter 0
ProvisionedRoot ==
    [FreshRoot EXCEPT !.dir = TRUE, !.number_txt = File(TRUE, str(0))]

Result(s, out) == [s |-> s, out |-> out]
Value(s, out, val) == [s |-> s, out |-> out, val |-> val]

\* os.mkdir; a failure is logged and swallowed
mkdir(s) == [s EXCEPT !.dir = TRUE]

\* aiofiles.open(name, 'w') then close: an empty file; a failure is swallowed
mkfile(s, name) ==
    IF ~s.dir THEN s
    ELSE IF name = "number.txt" THEN [s EXCEPT !.number_txt = File(TRUE, <<>>)]
    ELSE [s EXCEPT !.votes_db = [exists |-> TRUE, table |-> FALSE,
                                 rows |-> <<>>, pending |-> <<>>]]

AbstractDatabase_connect(s) ==
    LET s1 == IF ~s.dir THEN mkdir(s) ELSE s
        s2 == IF ~s1.number_txt.exists THEN mkfile(s1, "number.txt") ELSE s1
        n == int(s2.number_txt.content)
    IN  IF ~s2.number_txt.exists THEN Result(s2, "FileNotFoundError")
        ELSE IF ~n.ok THEN Result(s2, "ValueError")
        ELSE Result([s2 EXCEPT !.number = n.v], "ok")

JSONDatabase_connect(s) ==
    LET r == AbstractDatabase_connect(s)
    IN  IF r.out # "ok" THEN r
        ELSE IF ~r.s.votes_json.exists
        THEN Result([r.s EXCEPT !.votes_json = File(TRUE, dumps_list(<<>>))], "ok")
        ELSE r

SQLiteDatabase_connect(s) ==
    LET r == AbstractDatabase_connect(s)
        s1 == IF ~r.s.votes_db.exists THEN mkfile(r.s, "votes.db") ELSE r.s
    IN  IF r.out # "ok" THEN r
        ELSE IF ~s1.votes_db.exists THEN Result(s1, "OperationalError")
        ELSE Result([s1 EXCEPT !.conn = "open", !.votes_db.table = TRUE], "ok")

connect(b, s) == IF b = "json" THEN JSONDatabase_connect(s) ELSE SQLiteDatabase_connect(s)

(***************************************************************************)
(* insert, one step per await; a task t is one running insert() call       *)
(***************************************************************************)
Task(pc, payload) ==
    [pc |-> pc, payload |-> payload, text |-> <<>>, data |-> <<>>, used |-> -1, err |-> ""]
Idle == Task("idle", NoPayload)
Ended(t) == t.pc \in {"done", "failed"}
Raise(s, t, exc) == [s |-> s, t |-> [t EXCEPT !.pc = "failed", !.err = exc]]
Goto(s, t, pc) == [s |-> s, t |-> [t EXCEPT !.pc = pc]]

\* the mode of aiofiles.open('toppy_vote_cache/number.txt') in insert
AbstractDatabase_insert_mode == "r"
Writable(mode) == mode \in {"w", "a", "r+", "w+"}

AbstractDatabase_insert_step(s, t) ==
    IF t.pc = "a_incr"
    THEN LET s1 == [s EXCEPT !.number = s.number + 1]
         IN  IF ~s1.number_txt.exists THEN Raise(s1, t, "FileNotFoundError")
             ELSE Goto(s1, t, "a_write")
    ELSE \* a_write
         IF ~Writable(AbstractDatabase_insert_mode) THEN Raise(s, t, "UnsupportedOperation")
         ELSE Goto([s EXCEPT !.number_txt = File(TRUE, str(s.number))], t, "done")

\* what insert writes to votes.json: json.dumps(text, indent=4)
JSONDatabase_insert_dumped(text, data) == dumps_str(text)

JSONDatabase_insert_step(s, t) ==
    IF t.pc = "j_open"
    THEN IF ~s.votes_json.exists THEN Raise(s, t, "FileNotFoundError")
         ELSE Goto(s, t, "j_read")
    ELSE IF t.pc = "j_read"
    THEN Goto(s, [t EXCEPT !.text = s.votes_json.content], "j_append")
    ELSE IF t.pc = "j_append"
    THEN LET v == loads(t.text)
             d == <<s.number, t.payload.user_id, isoformat(t.payload.time), t.payload.SITE>>
         IN  IF v.t = "err" THEN Raise(s, t, "JSONDecodeError")
             ELSE IF v.t = "str" THEN Raise(s, t, "AttributeError")
             ELSE Goto([s EXCEPT !.votes_json = File(TRUE, <<>>)],
                       [t EXCEPT !.data = Append(v.v, d), !.used = s.number], "j_write")
    ELSE IF t.pc = "j_write"
    THEN Goto([s EXCEPT !.votes_json = File(TRUE, JSONDatabase_insert_dumped(t.text, t.data))],
              t, "a_incr")
    ELSE AbstractDatabase_insert_step(s, t)

\* a table whose number column carries no key
PrimaryKeyConflict_nokey(votes, number) == FALSE

\* number INT PRIMARY KEY: no two rows of votes with the same number
PrimaryKeyConflict(votes, number) ==
    \E i \in 1..Len(votes) : votes[i][1] = number

\* INSERT OR IGNORE: a conflicting row is dropped without an error
SQLiteDatabase_insert_step_ignore(s, t) ==
    IF t.pc = "s_exec"
    THEN LET d == <<s.number, t.payload.user_id, isoformat(t.payload.time), t.payload.SITE>>
         IN  IF s.conn = MISSING THEN Raise(s, t, "AttributeError")
             ELSE IF ~s.votes_db.table THEN Raise(s, t, "OperationalError")
             ELSE IF PrimaryKeyConflict(s.votes_db.rows \o s.votes_db.pending, s.number)
             THEN Goto(s, [t EXCEPT !.used = s.number], "s_commit")
             ELSE Goto([s EXCEPT !.votes_db.pending = Append(@, d)],
                       [t EXCEPT !.used = s.number], "s_commit")
    ELSE IF t.pc = "s_commit"
    THEN Goto([s EXCEPT !.votes_db.rows = @ \o s.votes_db.pending,
                        !.votes_db.pending = <<>>], t, "a_incr")
    ELSE AbstractDatabase_insert_step(s, t)

SQLiteDatabase_insert_step(s, t) ==
    IF t.pc = "s_exec"
    THEN LET d == <<s.number, t.payload.user_id, isoformat(t.payload.time), t.payload.SITE>>
         IN  IF s.conn = MISSING THEN Raise(s, t, "AttributeError")
             ELSE IF ~s.votes_db.table THEN Raise(s, t, "OperationalError")
             ELSE IF PrimaryKeyConflict(s.votes_db.rows \o s.votes_db.pending, s.number)
             THEN Raise(s, [t EXCEPT !.used = s.number], "IntegrityError")
             ELSE Goto([s EXCEPT !.votes_db.pending = Append(@, d)],
                       [t EXCEPT !.used = s.number], "s_commit")
    ELSE IF t.pc = "s_commit"
    THEN Goto([s EXCEPT !.votes_db.rows = @ \o s.votes_db.pending,
                        !.votes_db.pending = <<>>], t, "a_incr")
    ELSE AbstractDatabase_insert_step(s, t)

insert_step(b, s, t) ==
    IF b = "json" THEN JSONDatabase_insert_step(s, t) ELSE SQLiteDatabase_insert_step(s, t)

NewTask(b, payload) == Task(IF b = "json" THEN "j_open" ELSE "s_exec", payload)

\* insert() awaited to its end: the steps run with nothing in between
RECURSIVE run(_, _, _)
run(b, s, t) ==
    IF Ended(t) THEN [s |-> s, t |-> t]
    ELSE LET r == insert_step(b, s, t) IN run(b, r.s, r.t)

insert(b, s, payload) ==
    LET r == run(b, s, NewTask(b, payload))
    IN  Result(r.s, IF r.t.pc = "done" THEN "ok" ELSE r.t.err)

(***************************************************************************)
(* fetchone, fetchmany                                                     *)
(***************************************************************************)
\* CachedVote(d[0], d[1], fromisoformat(d[2]), d[3])
Vote(d) == CachedVote(d[1], d[2], fromisoformat(d[3]).v, d[4])
Parses(d) == fromisoformat(d[3]).ok

Votes(data) == [i \in 1..Len(data) |-> Vote(data[i])]
AllParse(data) == \A i \in 1..Len(data) : Parses(data[i])

JSONDatabase_fetchone(s, number) ==
    LET v == loads(s.votes_json.content)
        n == Len(v.v)
        i == IF number < 0 THEN n + number + 1 ELSE number + 1
    IN  IF ~s.votes_json.exists THEN Value(s, "FileNotFoundError", <<>>)
        ELSE IF v.t = "err" THEN Value(s, "JSONDecodeError", <<>>)
        ELSE IF v.t = "str" THEN Value(s, "IndexError", <<>>)
        ELSE IF i < 1 \/ i > n THEN Value(s, "IndexError", <<>>)
        ELSE IF ~Parses(v.v[i]) THEN Value(s, "ValueError", <<>>)
        ELSE Value(s, "ok", <<Vote(v.v[i])>>)

\* votes.json opened with mode 'w' for the read
JSONDatabase_fetchmany_w(s) ==
    IF ~s.dir THEN Value(s, "FileNotFoundError", <<>>)
    ELSE Value([s EXCEPT !.votes_json = File(TRUE, <<>>)], "UnsupportedOperation", <<>>)

JSONDatabase_fetchmany(s) ==
    LET v == loads(s.votes_json.content)
    IN  IF ~s.votes_json.exists THEN Value(s, "FileNotFoundError", <<>>)
        ELSE IF v.t = "err" THEN Value(s, "JSONDecodeError", <<>>)
        ELSE IF v.t = "str"
        THEN IF Len(v.v) = 0 THEN Value(s, "ok", <<>>) ELSE Value(s, "IndexError", <<>>)
        ELSE IF ~AllParse(v.v) THEN Value(s, "ValueError", <<>>)
        ELSE Value(s, "ok", Votes(v.v))

\* SELECT * FROM votes WHERE number = ?
Select(votes, number) == SelectSeq(votes, LAMBDA d : d[1] = number)

SQLiteDatabase_fetchone(s, number) ==
    LET data == Select(s.votes_db.rows \o s.votes_db.pending, number)
    IN  IF s.conn = MISSING THEN Value(s, "AttributeError", <<>>)
        ELSE IF ~s.votes_db.table THEN Value(s, "OperationalError", <<>>)
        ELSE IF Len(data) = 0 THEN Value(s, "ok", <<>>)
        ELSE IF ~Parses(data[1]) THEN Value(s, "ValueError", <<>>)
        ELSE Value(s, "ok", <<Vote(data[1])>>)

SQLiteDatabase_fetchmany(s) ==
    LET data == s.votes_db.rows \o s.votes_db.pending
    IN  IF s.conn = MISSING THEN Value(s, "AttributeError", <<>>)
        ELSE IF ~s.votes_db.table THEN Value(s, "OperationalError", <<>>)
        ELSE IF ~AllParse(data) THEN Value(s, "ValueError", <<>>)
        ELSE Value(s, "ok", Votes(data))

fetchone(b, s, number) ==
    IF b = "json" THEN JSONDatabase_fetchone(s, number) ELSE SQLiteDatabase_fetchone(s, number)

fetchmany(b, s) ==
    IF b = "json" THEN JSONDatabase_fetchmany(s) ELSE SQLiteDatabase_fetchmany(s)

(***************************************************************************)
(* State                                                                   *)
(*   db[b]    the storage root and the instance of backend b               *)
(*   ret[b]   the outcome of the last call: "ok" or the exception raised,  *)
(*            and the value returned (None and no value are <<>>)          *)
(*   live[b]  a connect() of the instance has returned normally            *)
(*   hist     the connect, insert and restart calls issued so far          *)
(*   root     how the storage root started                                 *)
(*   tasks    the insert() calls running as concurrent tasks               *)
(***************************************************************************)
Tasks == {1, 2}
Keys == -1..MaxCalls

Ret(op, arg, out, val) == [op |-> op, arg |-> arg, out |-> out, val |-> val]
Call(op, p) == [op |-> op, p |-> p]
StartOf(r) == IF r = "fresh" THEN FreshRoot ELSE ProvisionedRoot

InitOn(bs) ==
    /\ root \in {"fresh", "provisioned"}
    /\ db = [b \in bs |-> StartOf(root)]
    /\ ret = [b \in bs |-> Ret("new", 0, "ok", <<>>)]
    /\ live = [b \in bs |-> FALSE]
    /\ hist = <<>>
    /\ tasks = [t \in Tasks |-> Idle]

\* one store, of either backend
Init == \E b \in Backends : InitOn({b})

\* a JSONDatabase and a SQLiteDatabase, each on its own storage root, given the same calls
InitPair == InitOn(Backends)

NoneRunning == \A t \in Tasks : tasks[t].pc = "idle" \/ Ended(tasks[t])

Connect ==
    /\ NoneRunning
    /\ Len(hist) < MaxCalls
    /\ db' = [b \in DOMAIN db |-> connect(b, db[b]).s]
    /\ ret' = [b \in DOMAIN db |-> Ret("connect", 0, connect(b, db[b]).out, <<>>)]
    /\ live' = [b \in DOMAIN db |-> live[b] \/ connect(b, db[b]).out = "ok"]
    /\ hist' = Append(hist, Call("connect", NoPayload))
    /\ UNCHANGED <<root, tasks>>

Insert(p) ==
    /\ NoneRunning
    /\ Len(hist) < MaxCalls
    /\ db' = [b \in DOMAIN db |-> insert(b, db[b], p).s]
    /\ ret' = [b \in DOMAIN db |-> Ret("insert", 0, insert(b, db[b], p).out, <<>>)]
    /\ hist' = Append(hist, Call("insert", p))
    /\ UNCHANGED <<live, root, tasks>>

Fetchone(k) ==
    /\ NoneRunning
    /\ db' = [b \in DOMAIN db |-> fetchone(b, db[b], k).s]
    /\ ret' = [b \in DOMAIN db |->
                Ret("fetchone", k, fetchone(b, db[b], k).out, fetchone(b, db[b], k).val)]
    /\ UNCHANGED <<live, hist, root, tasks>>

Fetchmany ==
    /\ NoneRunning
    /\ db' = [b \in DOMAIN db |-> fetchmany(b, db[b]).s]
    /\ ret' = [b \in DOMAIN db |->
                Ret("fetchmany", 0, fetchmany(b, db[b]).out, fetchmany(b, db[b]).val)]
    /\ UNCHANGED <<live, hist, root, tasks>>

\* the process ends and a new instance is constructed on the same storage root;
\* the rows of an open transaction are rolled back
Restart ==
    /\ NoneRunning
    /\ Len(hist) < MaxCalls
    /\ db' = [b \in DOMAIN db |-> [New(db[b]) EXCEPT !.votes_db.pending = <<>>]]
    /\ ret' = [b \in DOMAIN db |-> Ret("new", 0, "ok", <<>>)]
    /\ live' = [b \in DOMAIN db |-> FALSE]
    /\ hist' = Append(hist, Call("restart", NoPayload))
    /\ UNCHANGED <<root, tasks>>

Next ==
    \/ Connect
    \/ \E p \in Payloads : Insert(p)
    \/ \E k \in Keys : Fetchone(k)
    \/ Fetchmany
    \/ Restart

\* calls issued serially, each awaited before the next
Spec == Init /\ [][Next]_vars

\* both backends side by side
SpecPair == InitPair /\ [][Next]_vars

(***************************************************************************)
(* Concurrent insert() tasks on one instance, interleaved at their awaits  *)
(***************************************************************************)
Start(t, p) ==
    /\ tasks[t].pc = "idle"
    /\ Len(hist) < MaxCalls
    /\ tasks' = [tasks EXCEPT ![t] = NewTask(CHOOSE b \in DOMAIN db : TRUE, p)]
    /\ hist' = Append(hist, Call("insert", p))
    /\ UNCHANGED <<db, ret, live, root>>

Step(t) ==
    /\ tasks[t].pc # "idle"
    /\ ~Ended(tasks[t])
    /\ LET b == CHOOSE x \in DOMAIN db : TRUE
           r == insert_step(b, db[b], tasks[t])
       IN  /\ db' = [db EXCEPT ![b] = r.s]
           /\ tasks' = [tasks EXCEPT ![t] = r.t]
           /\ ret' = IF Ended(r.t)
                     THEN [ret EXCEPT ![b] =
                            Ret("insert", t, IF r.t.pc = "done" THEN "ok" ELSE r.t.err, <<>>)]
                     ELSE ret
    /\ UNCHANGED <<live, hist, root>>

NextConc ==
    \/ Connect
    \/ \E t \in Tasks, p \in Payloads : Start(t, p)
    \/ \E t \in Tasks : Step(t)

SpecConc == Init /\ [][NextConc]_vars

(***************************************************************************)
(* Observations used by the properties                                     *)
(***************************************************************************)
\* the tuples a store holds: the list in votes.json, the committed rows of votes
StoredRecords(b, s) ==
    IF b = "json"
    THEN IF s.votes_json.exists /\ loads(s.votes_json.content).t = "list"
         THEN loads(s.votes_json.content).v ELSE <<>>
    ELSE s.votes_db.rows

Numbers(data) == {data[i][1] : i \in 1..Len(data)}

\* hist is connect() followed by inserts only
IsRun(h) ==
    /\ Len(h) >= 1
    /\ h[1].op = "connect"
    /\ \A i \in 2..Len(h) : h[i].op = "insert"

\* the instance has been given a connect() since it was constructed
ConnectedBefore(h) ==
    \E i \in 1..Len(h) :
        /\ h[i].op = "connect"
        /\ \A j \in i..Len(h) : h[j].op # "restart"

SameVote(v, p) == v.id = p.user_id /\ v.site = p.SITE /\ DtEq(v.time, p.time)

(***************************************************************************)
(* Properties                                                              *)
(***************************************************************************)

\* C1: after a connect() that returned on a storage root without votes and N
\* serial insert() calls, fetchmany() returns exactly N records and the i-th has number i (an empty
\* list and no error for N = 0).
C1_FetchmanyAfterSerialInserts ==
    \A b \in DOMAIN db :
        (IsRun(hist) /\ live[b] /\ ret[b].op = "fetchmany")
        => /\ ret[b].out = "ok"
           /\ Len(ret[b].val) = Len(hist) - 1
           /\ \A i \in 1..Len(ret[b].val) : ret[b].val[i].number = i - 1

\* C2: after N serial inserts, fetchone(k) for 0 <= k < N returns the record of
\* the k-th insert: number k and the id, time and site of the k-th payload.
C2_FetchoneReturnsKth ==
    \A b \in DOMAIN db :
        (IsRun(hist) /\ live[b] /\ ret[b].op = "fetchone"
            /\ ret[b].arg >= 0 /\ ret[b].arg < Len(hist) - 1)
        => /\ ret[b].out = "ok"
           /\ Len(ret[b].val) = 1
           /\ ret[b].val[1].number = ret[b].arg
           /\ SameVote(ret[b].val[1], hist[ret[b].arg + 2].p)

\* C3: with N records stored, fetchone(k) for k >= N or k < 0 on a connected
\* store returns None: no error and no stored record.
C3_FetchoneOutOfRangeIsNone ==
    \A b \in DOMAIN db :
        (live[b] /\ ret[b].op = "fetchone"
            /\ (ret[b].arg < 0 \/ ret[b].arg >= Len(StoredRecords(b, db[b]))))
        => (ret[b].out = "ok" /\ ret[b].val = <<>>)

\* C4: in every state reached by serial calls (repeated connects and restarts
\* included) the numbers of the stored records are exactly 0..N-1, N the count
\* of stored records: no gap and no number twice.
C4_ContiguousNumbers ==
    \A b \in DOMAIN db :
        LET data == StoredRecords(b, db[b])
        IN  /\ Numbers(data) = 0..(Len(data) - 1)
            /\ \A i, j \in 1..Len(data) : data[i][1] = data[j][1] => i = j

\* a SQLite store holding a record is given an insert after a second connect()
C4_Witness ==
    /\ "sqlite" \in DOMAIN db
    /\ Len(db["sqlite"].votes_db.rows) >= 1
    /\ Len(hist) >= 4
    /\ hist[3].op \in {"connect", "restart"}
    /\ hist[Len(hist)].op = "insert"
    /\ ret["sqlite"].op = "insert"
    /\ ret["sqlite"].out = "IntegrityError"

\* C5: after N serial inserts, a new instance connected to the same storage
\* root has number N and its fetchmany() returns the N stored records.
C5_CounterResumesAfterRestart ==
    \A b \in DOMAIN db :
        (/\ Len(hist) >= 3
         /\ IsRun(SubSeq(hist, 1, Len(hist) - 2))
         /\ hist[Len(hist) - 1].op = "restart"
         /\ hist[Len(hist)].op = "connect"
         /\ live[b]
         /\ ret[b].op \in {"connect", "fetchmany"})
        => /\ ret[b].out = "ok"
           /\ db[b].number = Len(hist) - 3
           /\ ret[b].op = "fetchmany" => Len(ret[b].val) = Len(hist) - 3

\* C6: a second connect() on the same instance leaves the in-memory number, the
\* counter file and the stored records as they were.
C6_ConnectIdempotent ==
    [][\A b \in DOMAIN db :
        (hist' = Append(hist, Call("connect", NoPayload)) /\ ConnectedBefore(hist))
        => /\ db'[b].number = db[b].number
           /\ db'[b].number_txt = db[b].number_txt
           /\ StoredRecords(b, db'[b]) = StoredRecords(b, db[b])]_vars

\* C7: the first connect() on a storage root that does not exist succeeds,
\* creates the directory and a counter file holding "0", and leaves number 0.
C7_FirstConnectCreatesCounter ==
    \A b \in DOMAIN db :
        (root = "fresh" /\ Len(hist) = 1 /\ ret[b].op = "connect")
        => /\ ret[b].out = "ok"
           /\ db[b].dir
           /\ db[b].number_txt = File(TRUE, str(0))
           /\ db[b].number = 0

\* C8: a payload inserted and fetched back, by fetchone of its number or from
\* fetchmany, has the same user id, site and time.
C8_RoundTrip ==
    \A b \in DOMAIN db :
        /\ (IsRun(hist) /\ live[b] /\ ret[b].op = "fetchone"
                /\ ret[b].arg >= 0 /\ ret[b].arg < Len(hist) - 1)
            => /\ ret[b].out = "ok"
               /\ Len(ret[b].val) = 1
               /\ SameVote(ret[b].val[1], hist[ret[b].arg + 2].p)
        /\ (IsRun(hist) /\ live[b] /\ ret[b].op = "fetchmany")
            => /\ ret[b].out = "ok"
               /\ \A i \in 2..Len(hist) :
                    /\ i - 1 <= Len(ret[b].val)
                    /\ SameVote(ret[b].val[i - 1], hist[i].p)

\* C9: the two backends given the same serial calls agree after every call on
\* success or failure, and their fetchmany() results are equal field by field.
C9_BackendsAgree ==
    (DOMAIN db = Backends /\ ret["json"].op \in {"connect", "insert", "fetchmany"})
    => /\ (ret["json"].out = "ok") <=> (ret["sqlite"].out = "ok")
       /\ ret["json"].op = "fetchmany" => ret["json"].val = ret["sqlite"].val

\* C10: two concurrent insert() tasks that used the same counter value leave,
\* on the document backend, two records with that number or one of the two,
\* and on the relational backend one of them failed with a primary-key conflict.
C10_ConcurrentInsertsCollide ==
    \A b \in DOMAIN db :
        (/\ Ended(tasks[1]) /\ Ended(tasks[2])
         /\ tasks[1].used >= 0
         /\ tasks[1].used = tasks[2].used)
        => IF b = "json"
           THEN Len(Select(StoredRecords(b, db[b]), tasks[1].used)) \in {1, 2}
           ELSE "IntegrityError" \in {tasks[1].err, tasks[2].err}

\* C18: fetchone() and fetchmany() leave the stored records, the counter file
\* and the in-memory number unchanged, and two consecutive fetchmany() calls
\* with no insert between them return equal lists.
C18_FetchIsReadOnly ==
    [][\A b \in DOMAIN db :
        (ret'[b].op \in {"fetchone", "fetchmany"} /\ hist' = hist)
        => /\ db'[b] = db[b]
           /\ (ret[b].op = "fetchmany" /\ ret'[b].op = "fetchmany")
                => (ret'[b].out = ret[b].out /\ ret'[b].val = ret[b].val)]_vars

\* fetchmany() has returned a stored record
C18_Witness ==
    \E b \in DOMAIN db :
        /\ ret[b].op = "fetchmany"
        /\ ret[b].out = "ok"
        /\ Len(ret[b].val) >= 1
        /\ Len(StoredRecords(b, db[b])) = Len(ret[b].val)

\* the step is an insert(p) call issued serially
IsInsertCall == Len(hist') = Len(hist) + 1 /\ hist'[Len(hist')].op = "insert"

\* the tuple an insert of payload p stores under number c
IsTupleOf(d, c, p) ==
    /\ d[1] = c
    /\ d[2] = p.user_id
    /\ fromisoformat(d[3]).ok
    /\ DtEq(fromisoformat(d[3]).v, p.time)
    /\ d[4] = p.SITE

\* C11: an insert() that raises leaves the stored records, the in-memory number
\* and the counter file as they were before the call.
C11_FailedInsertChangesNothing ==
    [][\A b \in DOMAIN db :
        (IsInsertCall /\ ret'[b].out # "ok")
        => /\ StoredRecords(b, db'[b]) = StoredRecords(b, db[b])
           /\ db'[b].votes_json = db[b].votes_json
           /\ db'[b].number = db[b].number
           /\ db'[b].number_txt = db[b].number_txt]_vars

\* C12: insert(), fetchone() and fetchmany() on an instance without a
\* successful connect() fail with an error and change neither the stored
\* records nor the counter file.
C12_NotConnectedFails ==
    [][\A b \in DOMAIN db :
        (~live[b] /\ ret'[b].op \in {"insert", "fetchone", "fetchmany"}
            /\ (hist' # hist \/ ret' # ret))
        => /\ ret'[b].out # "ok"
           /\ StoredRecords(b, db'[b]) = StoredRecords(b, db[b])
           /\ db'[b].votes_json = db[b].votes_json
           /\ db'[b].number_txt = db[b].number_txt]_vars

C14_CounterFileMatchesNumber ==
    \A b \in DOMAIN db :
        (live[b] /\ ret[b].op = "insert")
        => db[b].number_txt = File(TRUE, str(db[b].number))

\* C15: at no point of an insert() is a record with number c stored while the
\* counter file holds a value <= c.
C15_CounterAheadOfRecords ==
    \A b \in DOMAIN db :
        \A i \in 1..Len(StoredRecords(b, db[b])) :
            /\ int(db[b].number_txt.content).ok
            /\ int(db[b].number_txt.content).v > StoredRecords(b, db[b])[i][1]

\* C16: after an insert() of the document backend votes.json deserializes to
\* the list it held before with the one new tuple appended at the end.
C16_JsonAppendOnly ==
    [][("json" \in DOMAIN db /\ live["json"] /\ IsInsertCall
            /\ db["json"].votes_json.exists
            /\ loads(db["json"].votes_json.content).t = "list")
        => /\ loads(db'["json"].votes_json.content).t = "list"
           /\ loads(db'["json"].votes_json.content).v
                = Append(loads(db["json"].votes_json.content).v,
                         <<db["json"].number, hist'[Len(hist')].p.user_id,
                           isoformat(hist'[Len(hist')].p.time),
                           hist'[Len(hist')].p.SITE>>)]_vars

\* C17: in every state reached by serial calls the tuple at list position i
\* of votes.json has stored number i.  (No reachable state has a tuple in
\* votes.json, see C17_NoTupleStored, so the statement is never exercised.)
C17_PositionIsNumber ==
    "json" \in DOMAIN db
    => \A i \in 1..Len(StoredRecords("json", db["json"])) :
            StoredRecords("json", db["json"])[i][1] = i - 1

\* votes.json never holds a tuple
C17_NoTupleStored ==
    "json" \in DOMAIN db => Len(StoredRecords("json", db["json"])) = 0

\* C19: an insert() of the relational backend whose row write meets a row with
\* the current counter value raises IntegrityError, stores no row and leaves
\* the in-memory number and the counter file unchanged.
C19_KeyCollisionRaises ==
    [][("sqlite" \in DOMAIN db /\ IsInsertCall
            /\ db["sqlite"].conn = "open"
            /\ Len(Select(db["sqlite"].votes_db.rows, db["sqlite"].number)) > 0)
        => /\ ret'["sqlite"].out = "IntegrityError"
           /\ db'["sqlite"].votes_db = db["sqlite"].votes_db
           /\ db'["sqlite"].number = db["sqlite"].number
           /\ db'["sqlite"].number_txt = db["sqlite"].number_txt]_vars

\* an insert of the relational backend has been rejected for its key
C19_Witness ==
    /\ "sqlite" \in DOMAIN db
    /\ ret["sqlite"].op = "insert"
    /\ ret["sqlite"].out = "IntegrityError"
    /\ Len(Select(db["sqlite"].votes_db.rows, db["sqlite"].number)) = 1

====
